---------------------------- MODULE Spec2Model ----------------------------
(***************************************************************************)
(* Model of ip.py: the inverted pendulum dynamics (class InvertedPendulum) *)
(* and the assembly of the fuzzy controller (create_controller, run once   *)
(* when the module is imported, line 198).                                 *)
(*                                                                         *)
(* Numbers.  The program computes with binary floating point (Python       *)
(* float / numpy.float64: 53 significant bits, round to nearest, ties to   *)
(* even, gradual underflow, overflow to a non-finite value).  The model    *)
(* keeps that arithmetic and scales the format down: Prec significant      *)
(* bits, a smallest quantum of 2^-FracBits, and overflow at MaxMag quanta. *)
(* A finite number is the integer count of quanta it holds; NaN stands for *)
(* every non-finite value (inf, -inf, nan).                                *)
(***************************************************************************)
EXTENDS Integers, Sequences, FiniteSets, TLC

Prec == 6
FracBits == 6

Pow2(k) == 2 ^ k

Unit == Pow2(FracBits)          \* quanta in 1.0
MaxMag == Pow2(15)              \* magnitudes from here on are non-finite
NaN == 4 * MaxMag               \* the non-finite value

IsNaN(a) == a = NaN
Finite(a) == a # NaN

\* The number of bits of n >= 0.
BitLen(n) == IF n = 0 THEN 0 ELSE CHOOSE k \in 1..31 : Pow2(k - 1) <= n /\ n \div 2 < Pow2(k - 1)

Abs(n) == IF n < 0 THEN -n ELSE n

\* Spacing of the representable numbers at magnitude n (n in quanta).
Ulp(n) == IF Abs(n) < Pow2(Prec) THEN 1 ELSE Pow2(BitLen(Abs(n)) - Prec)

Representable(n) == n = NaN \/ (Abs(n) < MaxMag /\ n % Ulp(n) = 0)

\* a / d quanta (a >= 0, d > 0) rounded to a multiple of step: to the nearest
\* one, and of two equally near ones to the even multiple.
RoundTo(a, d, step) ==
    LET lo == ((a \div d) \div step) * step
    IN  IF \/ 2 * (a - lo * d) > step * d
           \/ (2 * (a - lo * d) = step * d /\ (lo \div step) % 2 = 1)
        THEN lo + step
        ELSE lo

\* a / d quanta rounded to the nearest representable magnitude.
RoundMag(a, d) == RoundTo(a, d, Ulp(a \div d))

\* The float of magnitude r and the given sign; non-finite on overflow.
Signed(neg, r) == IF r >= MaxMag THEN NaN ELSE IF neg THEN -r ELSE r

\* The float nearest to num / den quanta (den # 0).
FRound(num, den) ==
    Signed((num < 0) # (den < 0), RoundMag(Abs(num), Abs(den)))

\* The float of the decimal literal num / den.
Lit(num, den) == FRound(num * Unit, den)

FNeg(a) == IF IsNaN(a) THEN NaN ELSE -a
FAdd(a, b) == IF IsNaN(a) \/ IsNaN(b) THEN NaN ELSE FRound(a + b, 1)
FSub(a, b) == FAdd(a, FNeg(b))
FMul(a, b) == IF IsNaN(a) \/ IsNaN(b) THEN NaN ELSE FRound(a * b, Unit)
\* Division of numpy.float64: x / 0 is non-finite, no exception.
FDiv(a, b) == IF IsNaN(a) \/ IsNaN(b) \/ b = 0 THEN NaN ELSE FRound(a * Unit, b)

\* C fmod: exact, with the sign of the dividend.
Fmod(a, b) == IF a >= 0 THEN a % b ELSE -((-a) % b)

\* Python's and numpy's float % for a positive divisor b: fmod, and when the
\* remainder is negative the divisor is added to it (a rounded addition).
FModulo(a, b) ==
    IF IsNaN(a) \/ IsNaN(b) THEN NaN
    ELSE LET mod == Fmod(a, b)
         IN  IF mod < 0 THEN FAdd(mod, b) ELSE mod

FLt(a, b) == Finite(a) /\ Finite(b) /\ a < b
FLe(a, b) == Finite(a) /\ Finite(b) /\ a <= b

\* numpy's pi, the float nearest to 3.14159265...
pi == Lit(355, 113)
TwoPi == FMul(Lit(2, 1), pi)


(***************************************************************************)
(* numpy's sin and cos.  They are library code; the model takes them as    *)
(* the float nearest to Bhaskara's rational approximation (with 22/7 for   *)
(* the half period), which is within a quantum of the true value at this   *)
(* precision, exactly odd resp. even, and has sin(0) = 0 and cos(0) = 1.   *)
(***************************************************************************)
Sin(a) ==
    IF IsNaN(a) THEN NaN
    ELSE LET n == Abs(a)
             t == n * (22 * Unit - 7 * n)
             s == FRound(28 * t * Unit, 605 * Unit * Unit - 7 * t)
         IN  IF a < 0 THEN FNeg(s) ELSE s

Cos(a) ==
    IF IsNaN(a) THEN NaN
    ELSE LET n == Abs(a)
             c == 22 * Unit - 7 * n
         IN  IF 14 * n <= 22 * Unit
             THEN FRound((484 * Unit * Unit - 196 * n * n) * Unit,
                         484 * Unit * Unit + 49 * n * n)
             ELSE FNeg(FRound((484 * Unit * Unit - 4 * c * c) * Unit,
                              484 * Unit * Unit + c * c))

(***************************************************************************)
(* class InvertedPendulum                                                  *)
(***************************************************************************)
VARIABLES
    alive,              \* an InvertedPendulum has been constructed
    l, m, mc, dt,       \* self.l, self.m, self.mc, self.dt
    O, w, x, v,         \* self.O, self.w, self.x, self.v
    ret,                \* the tuple the last call returned
    lastOp,             \* the last method called
    argO,               \* the O argument of the last set_state
    lastF,              \* the F argument of the last apply
    pre,                \* <<O, w, x, v>> as the last apply found it
    nApply,             \* apply calls since construction or the last set_state
    wasSet,             \* set_state has been called
    zeroRun,            \* every call since construction was apply(0) or get_state
    mir,                \* a second pendulum, same parameters, driven with the
    mirPre              \* negated arguments; and its state before its last apply

pend == <<alive, l, m, mc, dt, O, w, x, v, ret, lastOp, argO, lastF, pre,
          nApply, wasSet, zeroRun, mir, mirPre>>

\* Gravity in m/s^2
g == Lit(980665, 100000)

\* __pv: (x + pi) % (2 * pi) - pi
pv(a) == FSub(FModulo(FAdd(a, pi), TwoPi), pi)

\* Qacc with the gravity term taken with the cosine: g * co for g * so.
QaccGravityCos(p, s, F) ==
    LET so  == Sin(s[1])
        co  == Cos(s[1])
        M   == FAdd(p[2], p[3])
        mlw == FMul(FMul(FMul(FMul(p[2], p[1]), s[2]), s[2]), so)
        num == FAdd(FMul(g, co), FDiv(FMul(FSub(FNeg(F), mlw), co), M))
        den == FMul(p[1], FSub(FDiv(Lit(4, 1), Lit(3, 1)),
                               FDiv(FMul(FMul(p[2], co), co), M)))
    IN  FDiv(num, den)

\* The angular acceleration q of apply, from parameters p = <<l, m, mc, dt>>,
\* state s = <<O, w, x, v>> and force F, operation by operation.
Qacc(p, s, F) ==
    LET so  == Sin(s[1])
        co  == Cos(s[1])
        M   == FAdd(p[2], p[3])
        mlw == FMul(FMul(FMul(FMul(p[2], p[1]), s[2]), s[2]), so)
        num == FAdd(FMul(g, so), FDiv(FMul(FSub(FNeg(F), mlw), co), M))
        den == FMul(p[1], FSub(FDiv(Lit(4, 1), Lit(3, 1)),
                               FDiv(FMul(FMul(p[2], co), co), M)))
    IN  FDiv(num, den)

\* Aacc with a factor w dropped: w * so for w * w * so.
AaccDroppedFactor(p, s, F) ==
    LET so == Sin(s[1])
        co == Cos(s[1])
        M  == FAdd(p[2], p[3])
        q  == Qacc(p, s, F)
    IN  FSub(F, FDiv(FMul(FMul(p[2], p[1]),
                          FSub(FMul(s[2], so), FMul(q, co))), M))

\* The linear acceleration a of apply.
Aacc(p, s, F) ==
    LET so == Sin(s[1])
        co == Cos(s[1])
        M  == FAdd(p[2], p[3])
        q  == Qacc(p, s, F)
    IN  FSub(F, FDiv(FMul(FMul(p[2], p[1]),
                          FSub(FMul(FMul(s[2], s[2]), so), FMul(q, co))), M))

\* set_state: the state stored for the arguments s = <<O, w, x, v>>.
SetStateStep(s) == <<pv(s[1]), s[2], s[3], s[4]>>

\* ApplyStep as an explicit Euler step: the angle and the position advance
\* with the velocities the step found.
ApplyStepExplicitEuler(p, s, F) ==
    LET q  == Qacc(p, s, F)
        a  == Aacc(p, s, F)
        w1 == FAdd(s[2], FMul(q, p[4]))
        O1 == pv(FAdd(s[1], FMul(s[2], p[4])))
        v1 == FAdd(s[4], FMul(a, p[4]))
        x1 == FAdd(s[3], FMul(s[4], p[4]))
    IN  <<O1, w1, x1, v1>>

\* apply: the state after one step from s under force F.
ApplyStep(p, s, F) ==
    LET q  == Qacc(p, s, F)
        a  == Aacc(p, s, F)
        w1 == FAdd(s[2], FMul(q, p[4]))
        O1 == pv(FAdd(s[1], FMul(w1, p[4])))
        v1 == FAdd(s[4], FMul(a, p[4]))
        x1 == FAdd(s[3], FMul(v1, p[4]))
    IN  <<O1, w1, x1, v1>>

\* get_state
get_state == <<O, w, x, v>>

NegState(s) == <<FNeg(s[1]), FNeg(s[2]), FNeg(s[3]), FNeg(s[4])>>

Zero4 == <<0, 0, 0, 0>>

MaxApply == 2

\* Constructor arguments <<l, m, mc, dt>>: a regular pendulum (0.5, 0.1, 0.5
\* scaled to the format), a second regular one, and the degenerate ones the
\* constructor accepts: 4/3 - m/(m+mc) = 0, l = 0, m + mc = 0.
ParamSet ==
    { <<Lit(1, 2), Lit(1, 8), Lit(1, 2), Lit(1, 8)>>,
      <<Lit(1, 1), Lit(1, 1), Lit(1, 1), Lit(1, 4)>>,
      <<Lit(1, 1), Lit(4, 1), Lit(-1, 1), Lit(1, 4)>>,
      <<Lit(0, 1), Lit(1, 8), Lit(1, 2), Lit(1, 8)>>,
      <<Lit(1, 2), Lit(1, 1), Lit(-1, 1), Lit(1, 8)>> }

\* The float next below -pi.
BelowMinusPi == FSub(FNeg(pi), Ulp(pi))

AngleArgs == { Lit(0, 1), Lit(1, 2), Lit(6, 5), Lit(-6, 5), Lit(3, 1), pi,
               FNeg(pi), BelowMinusPi, Lit(5, 1), Lit(-40, 1) }
\* <<w, x, v>> arguments of set_state.
RestArgs  == { <<Lit(0, 1), Lit(0, 1), Lit(0, 1)>>,
               <<Lit(1, 1), Lit(1, 1), Lit(-1, 2)>>,
               <<Lit(-2, 1), Lit(0, 1), Lit(3, 1)>> }
ForceArgs == { Lit(0, 1), Lit(1, 1), Lit(-10, 1) }

\* What a method without a return statement returns.
None == <<>>

(***************************************************************************)
(* create_controller, run by the module's last statement when ip is        *)
(* imported.  pc is the statement it is at; "done" once PC is bound,       *)
(* "error" once an exception has left the module.                          *)
(***************************************************************************)
VARIABLES
    pc,                 \* the statement create_controller is at
    literal,            \* the primary rule-table literal of lines 159-167
    variables,          \* controller.variables: name -> adjectives
    tables,             \* the tables add_table has registered, in order
    table_names,        \* the local variable table_names
    PC                  \* the module's PC is bound to the controller

ctl == <<pc, literal, variables, tables, table_names, PC>>

O_names == <<"Ovbn", "Obn", "Osn", "Oz", "Osp", "Obp", "Ovbp">>
w_names == <<"wbn", "wsn", "wz", "wsp", "wbp">>
F_names == <<"Fvvbn", "Fvbn", "Fbn", "Fsn", "Fz", "Fsp", "Fbp", "Fvbp", "Fvvbp">>
x_names == <<"xn", "xz", "xp">>
v_names == <<"vn", "vz", "vp">>

\* The literal with the last cell misspelt.
PrimaryTableNamesTypo ==
    << <<"Fvvbn", "Fvvbn", "Fvbn", "Fbn", "Fsn">>,
       <<"Fvvbn", "Fvbn", "Fbn", "Fsn", "Fz">>,
       <<"Fvbn", "Fbn", "Fsn", "Fz", "Fsp">>,
       <<"Fbn", "Fsn", "Fz", "Fsp", "Fbp">>,
       <<"Fsn", "Fz", "Fsp", "Fbp", "Fvbp">>,
       <<"Fz", "Fsp", "Fbp", "Fvbp", "Fvvbp">>,
       <<"Fsp", "Fbp", "Fvbp", "Fvvbp", "Fvvvbp">> >>

\* The literal with the row of Oz written one category too high.
PrimaryTableNamesShifted ==
    << <<"Fvvbn", "Fvvbn", "Fvbn", "Fbn", "Fsn">>,
       <<"Fvvbn", "Fvbn", "Fbn", "Fsn", "Fz">>,
       <<"Fvbn", "Fbn", "Fsn", "Fz", "Fsp">>,
       <<"Fsn", "Fz", "Fsp", "Fbp", "Fvbp">>,
       <<"Fsn", "Fz", "Fsp", "Fbp", "Fvbp">>,
       <<"Fz", "Fsp", "Fbp", "Fvbp", "Fvvbp">>,
       <<"Fsp", "Fbp", "Fvbp", "Fvvbp", "Fvvbp">> >>

\* The literal of lines 159-167.
PrimaryTableNames ==
    << <<"Fvvbn", "Fvvbn", "Fvbn", "Fbn", "Fsn">>,
       <<"Fvvbn", "Fvbn", "Fbn", "Fsn", "Fz">>,
       <<"Fvbn", "Fbn", "Fsn", "Fz", "Fsp">>,
       <<"Fbn", "Fsn", "Fz", "Fsp", "Fbp">>,
       <<"Fsn", "Fz", "Fsp", "Fbp", "Fvbp">>,
       <<"Fz", "Fsp", "Fbp", "Fvbp", "Fvvbp">>,
       <<"Fsp", "Fbp", "Fvbp", "Fvvbp", "Fvvbp">> >>

\* The literal of lines 186-190.
SecondaryTableNames ==
    << <<"Fbp", "Fbp", "Fz">>,
       <<"Fbp", "Fz", "Fbn">>,
       <<"Fz", "Fbn", "Fbn">> >>

\* The add_table call of lines 191-193 left in.
SecondaryTableCallLeftIn == TRUE

\* The add_table call of lines 191-193 is commented out.
SecondaryTableCall == FALSE

\* flat_saw(range, n) of mf.py: n membership functions over the range, from
\* the lowest to the highest.
flat_saw(range, n) == [k \in 1..n |-> [range |-> range, n |-> n, k |-> k]]

Adjective(mf) == [mf |-> mf]

Min(a, b) == IF a <= b THEN a ELSE b

\* {name: Adjective(mf) for name, mf in zip(names, mfs)}: zip stops at the
\* shorter, a repeated name keeps its last value.
Adjectives(names, mfs) ==
    LET n == Min(Len(names), Len(mfs))
    IN  [nm \in {names[i] : i \in 1..n} |->
            Adjective(mfs[CHOOSE i \in 1..n :
                            /\ names[i] = nm
                            /\ \A j \in 1..n : names[j] = nm => j <= i])]

\* What a failed subscript stands for: the KeyError it raises.
KeyError == Adjective([range |-> "KeyError", n |-> 0, k |-> 0])

\* A subscript that falls back to a match ignoring the case of the key.
FoldCase(name) ==
    IF name = "fz" THEN "Fz" ELSE IF name = "FVVBP" THEN "Fvvbp" ELSE name

LookupIgnoreCase(adjectives, name) ==
    IF name \in DOMAIN adjectives THEN adjectives[name]
    ELSE IF FoldCase(name) \in DOMAIN adjectives THEN adjectives[FoldCase(name)]
    ELSE Adjective([range |-> "KeyError", n |-> 0, k |-> 0])

\* adjectives[name]: dict subscript, an exact match of the key or KeyError.
Lookup(adjectives, name) ==
    IF name \in DOMAIN adjectives THEN adjectives[name] ELSE KeyError

\* [adjectives[name] for name in names]
LookupAll(adjectives, names) ==
    [i \in 1..Len(names) |-> Lookup(adjectives, names[i])]

\* [[adjectives[name] for name in row] for row in grid]
LookupGrid(adjectives, grid) ==
    [i \in 1..Len(grid) |-> LookupAll(adjectives, grid[i])]

Raises(row) == \E i \in 1..Len(row) : row[i] = KeyError

\* add_table of control.py accepts a total grid only: one row of cells for
\* each row category and one cell for each column category in every row.
add_table_accepts(rows, cols, cells) ==
    /\ Len(cells) = Len(rows)
    /\ \A i \in 1..Len(cells) : Len(cells[i]) = Len(cols)

NoVariables == [nm \in {} |-> 0]

CtlInit ==
    /\ pc = "O"
    /\ variables = NoVariables
    /\ tables = <<>>
    /\ table_names = <<>>
    /\ PC = FALSE

\* lines 123-126
DefineO ==
    /\ pc = "O"
    /\ variables' = ("O" :> Adjectives(O_names, flat_saw("-3*pi/8, 3*pi/8", 7)))
                        @@ variables
    /\ pc' = "w"
    /\ UNCHANGED <<literal, tables, table_names, PC>>
    /\ UNCHANGED pend

\* lines 134-137
DefineW ==
    /\ pc = "w"
    /\ variables' = ("w" :> Adjectives(w_names, flat_saw("-3*pi, 3*pi", 5)))
                        @@ variables
    /\ pc' = "F"
    /\ UNCHANGED <<literal, tables, table_names, PC>>
    /\ UNCHANGED pend

\* lines 149-152
DefineF ==
    /\ pc = "F"
    /\ variables' = ("F" :> Adjectives(F_names, flat_saw("-100., 100.", 9)))
                        @@ variables
    /\ pc' = "primary"
    /\ UNCHANGED <<literal, tables, table_names, PC>>
    /\ UNCHANGED pend

\* The statement controller.add_table(rows, cols, cells) with its argument
\* lists: the next pc and the registered tables.
AddTable(onames, wnames, grid, rowVar, colVar, next) ==
    LET rows  == LookupAll(variables[rowVar], onames)
        cols  == LookupAll(variables[colVar], wnames)
        cells == LookupGrid(variables["F"], grid)
        ok    == /\ ~Raises(rows) /\ ~Raises(cols)
                 /\ \A i \in 1..Len(cells) : ~Raises(cells[i])
                 /\ add_table_accepts(rows, cols, cells)
    IN  IF ok
        THEN /\ tables' = Append(tables, [rows |-> rows, cols |-> cols,
                                          cells |-> cells])
             /\ pc' = next
        ELSE /\ tables' = tables
             /\ pc' = "error"

\* lines 159-170
AddPrimaryTable ==
    /\ pc = "primary"
    /\ table_names' = literal
    /\ AddTable(O_names, w_names, literal, "O", "w", "x")
    /\ UNCHANGED <<literal, variables, PC>>
    /\ UNCHANGED pend

\* lines 173-176
DefineX ==
    /\ pc = "x"
    /\ variables' = ("x" :> Adjectives(x_names, flat_saw("-10., 10.", 3)))
                        @@ variables
    /\ pc' = "v"
    /\ UNCHANGED <<literal, tables, table_names, PC>>
    /\ UNCHANGED pend

\* lines 179-182
DefineV ==
    /\ pc = "v"
    /\ variables' = ("v" :> Adjectives(v_names, flat_saw("-6., 6.", 3)))
                        @@ variables
    /\ pc' = "secondary"
    /\ UNCHANGED <<literal, tables, table_names, PC>>
    /\ UNCHANGED pend

\* lines 186-193
SecondaryTable ==
    /\ pc = "secondary"
    /\ table_names' = SecondaryTableNames
    /\ IF SecondaryTableCall
       THEN AddTable(x_names, v_names, SecondaryTableNames, "x", "v", "return")
       ELSE tables' = tables /\ pc' = "return"
    /\ UNCHANGED <<literal, variables, PC>>
    /\ UNCHANGED pend

\* line 195, and the assignment of line 198
Return ==
    /\ pc = "return"
    /\ PC' = TRUE
    /\ pc' = "done"
    /\ UNCHANGED <<literal, variables, tables, table_names>>
    /\ UNCHANGED pend

PendInit ==
    /\ alive = FALSE
    /\ l = 0 /\ m = 0 /\ mc = 0 /\ dt = 0
    /\ O = 0 /\ w = 0 /\ x = 0 /\ v = 0
    /\ ret = None /\ lastOp = "none" /\ argO = 0 /\ lastF = 0
    /\ pre = Zero4 /\ nApply = 0 /\ wasSet = FALSE /\ zeroRun = FALSE
    /\ mir = Zero4 /\ mirPre = Zero4

\* __init__(l, m, mc, dt)
Construct ==
    /\ PC
    /\ ~alive
    /\ \E p \in ParamSet :
          /\ l' = p[1] /\ m' = p[2] /\ mc' = p[3] /\ dt' = p[4]
    /\ alive' = TRUE
    /\ O' = 0 /\ w' = 0 /\ x' = 0 /\ v' = 0
    /\ lastOp' = "init" /\ zeroRun' = TRUE
    /\ mir' = Zero4
    /\ UNCHANGED <<ret, argO, lastF, pre, nApply, wasSet, mirPre>>
    /\ UNCHANGED ctl

\* set_state(O, w, x, v)
SetState ==
    /\ alive
    /\ \E aO \in AngleArgs, r \in RestArgs :
          LET s == SetStateStep(<<aO, r[1], r[2], r[3]>>)
          IN  /\ O' = s[1] /\ w' = s[2] /\ x' = s[3] /\ v' = s[4]
              /\ argO' = aO
              /\ mir' = SetStateStep(NegState(<<aO, r[1], r[2], r[3]>>))
    /\ lastOp' = "set_state" /\ wasSet' = TRUE /\ zeroRun' = FALSE
    /\ nApply' = 0
    /\ pre' = Zero4 /\ mirPre' = Zero4 /\ lastF' = 0
    /\ ret' = None
    /\ UNCHANGED <<alive, l, m, mc, dt>>
    /\ UNCHANGED ctl

\* apply(F)
Apply ==
    /\ alive
    /\ nApply < MaxApply
    /\ \E F \in ForceArgs :
          LET s == ApplyStep(<<l, m, mc, dt>>, <<O, w, x, v>>, F)
          IN  /\ O' = s[1] /\ w' = s[2] /\ x' = s[3] /\ v' = s[4]
              /\ ret' = s
              /\ lastF' = F
              /\ mir' = ApplyStep(<<l, m, mc, dt>>, mir, FNeg(F))
              /\ zeroRun' = (zeroRun /\ F = 0)
    /\ pre' = <<O, w, x, v>> /\ mirPre' = mir
    /\ lastOp' = "apply"
    /\ nApply' = nApply + 1
    /\ UNCHANGED <<alive, l, m, mc, dt, argO, wasSet>>
    /\ UNCHANGED ctl

\* get_state()
GetState ==
    /\ alive
    /\ ret' = get_state
    /\ lastOp' = "get_state"
    /\ UNCHANGED <<alive, l, m, mc, dt, O, w, x, v, argO, lastF, pre, nApply,
                   wasSet, zeroRun, mir, mirPre>>
    /\ UNCHANGED ctl

vars == <<pend, ctl>>

Init == PendInit /\ CtlInit /\ literal = PrimaryTableNames

Next ==
    \/ DefineO \/ DefineW \/ DefineF \/ AddPrimaryTable
    \/ DefineX \/ DefineV \/ SecondaryTable \/ Return
    \/ Construct \/ SetState \/ Apply \/ GetState

Spec == Init /\ [][Next]_vars

\* The statements of create_controller, which the import runs to the end.
Assembly ==
    \/ DefineO \/ DefineW \/ DefineF \/ AddPrimaryTable
    \/ DefineX \/ DefineV \/ SecondaryTable \/ Return

\* The import does not stop half way through create_controller; when the
\* methods of a pendulum are called is up to the caller.
FairSpec == Spec /\ WF_vars(Assembly)


(***************************************************************************)
(* create_controller on an edited source: the rule-table literal of lines  *)
(* 159-167 with one cell renamed, or a cell or a row dropped.  The literal  *)
(* is the only place where the table is written down, so these are the     *)
(* malformed tables an edit of the module can produce.                     *)
(***************************************************************************)
SetCell(t, i, j, name) == [t EXCEPT ![i][j] = name]
DropCell(t, i) == [t EXCEPT ![i] = SubSeq(@, 1, Len(@) - 1)]
DropRow(t) == SubSeq(t, 1, Len(t) - 1)

Literals ==
    { PrimaryTableNames,
      SetCell(PrimaryTableNames, 4, 3, "fz"),
      SetCell(PrimaryTableNames, 7, 5, "FVVBP"),
      SetCell(PrimaryTableNames, 1, 1, "Fhuge"),
      SetCell(PrimaryTableNames, 2, 2, "Ovbn"),
      DropCell(PrimaryTableNames, 7),
      DropRow(PrimaryTableNames) }

InitLiterals == PendInit /\ CtlInit /\ literal \in Literals

SpecLiterals == InitLiterals /\ [][Next]_vars

(***************************************************************************)
(* The claims.                                                             *)
(***************************************************************************)
State4 == <<O, w, x, v>>
AllFinite(s) == \A i \in 1..4 : Finite(s[i])
Params == <<l, m, mc, dt>>

\* -pi <= a < pi
InPrincipalRange(a) == FLe(FNeg(pi), a) /\ FLt(a, pi)

\* C1: after construction and after any sequence of set_state and apply
\* calls, the stored angle O satisfies -pi <= O < pi.  (Stated for the
\* states whose angle is a number; the degenerate parameters that make it
\* non-finite are left aside.)
C1_AngleInPrincipalRange == (alive /\ Finite(O)) => InPrincipalRange(O)

\* a and b differ by a whole number of turns, up to the rounding of the
\* additions that pv makes.
CongruentMod2Pi(a, b) ==
    \E k \in -8..8 : Abs(a - b - k * TwoPi) <= Ulp(Abs(b) + TwoPi)

\* C2: for every angle x, pv(x) is the value in [-pi, pi) congruent to x
\* modulo 2 pi; pv(pi) = -pi, pv(-pi) = -pi, pv(0) = 0; and for x + pi < 0
\* the result is that of a floor-style modulo.  Read off set_state, which
\* stores pv of its argument.
C2_PrincipalValue ==
    lastOp = "set_state" =>
        /\ InPrincipalRange(O)
        /\ CongruentMod2Pi(O, argO)
        /\ (argO = pi \/ argO = FNeg(pi)) => O = FNeg(pi)
        /\ argO = 0 => O = 0
        /\ O = FSub(FRound(FAdd(argO, pi) % TwoPi, 1), pi)

InertiaFactorAtZero ==
    FSub(FDiv(Lit(4, 1), Lit(3, 1)), FDiv(FMul(FMul(m, Cos(0)), Cos(0)), FAdd(m, mc)))

IsNeg(a, b) == Finite(a) /\ Finite(b) /\ b = -a

\* C4 as claimed: one pendulum set to (O, w, x, v) and stepped with F, the
\* other set to (-O, -w, -x, -v) and stepped with -F: the two states are
\* exact component-wise negations of each other, the boundary -pi included.
\* (Stated for the steps that end in finite states.)
C4_ExactNegation ==
    (wasSet /\ nApply = 1 /\ AllFinite(State4) /\ AllFinite(mir))
        => \A i \in 1..4 : IsNeg(State4[i], mir[i])

\* C4 as amended: when the two angles as stored by set_state are exact
\* negations of each other and the step ends in finite states, the two w,
\* the two x and the two v are exact negations of each other, and the two
\* angles are pv(y) and pv(-y) of the same y = O + w_new * dt.
C4_NegationOfRates ==
    (wasSet /\ nApply = 1 /\ IsNeg(pre[1], mirPre[1])
        /\ AllFinite(State4) /\ AllFinite(mir))
        => /\ \A i \in 2..4 : IsNeg(State4[i], mir[i])
           /\ mir[1] = pv(FNeg(FAdd(pre[1], FMul(w, dt))))

C4_Witness ==
    /\ wasSet /\ nApply = 1 /\ IsNeg(pre[1], mirPre[1])
    /\ AllFinite(State4) /\ AllFinite(mir)
    /\ pre[1] # 0 /\ w # 0 /\ x # 0 /\ v # 0
    /\ \A i \in 2..4 : IsNeg(State4[i], mir[i])
    /\ ~IsNeg(O, mir[1])

\* The set of adjectives registered for variable var.
AdjectivesOf(var) ==
    IF var \in DOMAIN variables
    THEN {variables[var][nm] : nm \in DOMAIN variables[var]}
    ELSE {}

Registered == Len(tables) >= 1
Primary == tables[1]

\* C5: the primary table passed to add_table is a total 7 x 5 grid, one row
\* for each angle category, one cell for each angular-velocity category in
\* every row, every cell one of the 9 categories of F; no lookup raises.
C5_PrimaryTableTotal ==
    /\ pc # "error"
    /\ Registered =>
          /\ Primary.rows = [i \in 1..7 |-> variables["O"][O_names[i]]]
          /\ Primary.cols = [j \in 1..5 |-> variables["w"][w_names[j]]]
          /\ Cardinality({Primary.rows[i] : i \in 1..7}) = 7
          /\ Cardinality({Primary.cols[j] : j \in 1..5}) = 5
          /\ Len(Primary.cells) = 7
          /\ \A i \in 1..7 :
                /\ Len(Primary.cells[i]) = 5
                /\ \A j \in 1..5 : Primary.cells[i][j] \in AdjectivesOf("F")
          /\ Cardinality(AdjectivesOf("F")) = 9

C5_Witness == pc = "done" /\ Registered /\ Len(Primary.cells) = 7

\* The position of e in the sequence q.
IndexOf(q, e) == CHOOSE i \in 1..Len(q) : q[i] = e

\* The cell of the registered primary table for the categories oname, wname.
Cell(oname, wname) ==
    Primary.cells[IndexOf(Primary.rows, variables["O"][oname])]
                 [IndexOf(Primary.cols, variables["w"][wname])]

\* The force category k steps above (below, for k < 0) Fz.
Force(k) == variables["F"][F_names[5 + k]]

\* C6: in the registered primary table the cell (Oz, wz) is Fz, the corner
\* (Ovbn, wbn) is Fvvbn and the corner (Ovbp, wbp) is Fvvbp, and the diagonal
\* from the one corner to the other is centred at Fz: the cells at equal
\* distances from (Oz, wz) on either side hold opposite force categories.
C6_CentreAndCorners ==
    Registered =>
        /\ Cell("Oz", "wz") = Force(0)
        /\ Cell("Ovbn", "wbn") = Force(-4)
        /\ Cell("Ovbp", "wbp") = Force(4)
        /\ \A i \in 1..7, j \in 1..5, k \in -4..4 :
              Cell(O_names[i], w_names[j]) = Force(k)
                  => Cell(O_names[8 - i], w_names[6 - j]) = Force(-k)

C6_Witness == pc = "done" /\ Registered /\ Cell("Oz", "wz") = Force(0)

\* Table t takes the cart position or the cart velocity as an input.
UsesCart(t) ==
    \/ \E i \in 1..Len(t.rows) : t.rows[i] \in AdjectivesOf("x") \cup AdjectivesOf("v")
    \/ \E j \in 1..Len(t.cols) : t.cols[j] \in AdjectivesOf("x") \cup AdjectivesOf("v")

SecondaryRegistered == \E k \in 1..Len(tables) : UsesCart(tables[k])

\* C7: after create_controller returns, the secondary 3 x 3 table is in the
\* assembly's data (table_names, over the x and v variables of the
\* controller) but add_table was called once, for the primary table, and no
\* registered rule has x or v as an input.
C7_SecondaryNotRegistered ==
    pc = "done" =>
        /\ Len(tables) = 1
        /\ \A i \in 1..Len(Primary.rows) : Primary.rows[i] \in AdjectivesOf("O")
        /\ \A j \in 1..Len(Primary.cols) : Primary.cols[j] \in AdjectivesOf("w")
        /\ ~SecondaryRegistered
        /\ table_names = SecondaryTableNames
        /\ DOMAIN variables["x"] = {x_names[i] : i \in 1..3}
        /\ DOMAIN variables["v"] = {v_names[i] : i \in 1..3}
        /\ Len(table_names) = 3
        /\ \A i \in 1..3 :
              /\ Len(table_names[i]) = 3
              /\ \A j \in 1..3 : table_names[i][j] \in DOMAIN variables["F"]

C7_Witness == pc = "done" /\ PC /\ Len(tables) = 1 /\ table_names = SecondaryTableNames

\* C8 as claimed: the assembly has an operation that enables the secondary
\* table, after which it is registered besides the primary one: a run of
\* the assembly comes to a state where the secondary table is registered.
C8_SecondaryCanBeEnabled == <>SecondaryRegistered

\* C8 as amended: create_controller takes no flag and the module has no call
\* that enables the secondary table: whatever is called, during the assembly
\* and after it, at most the primary table is registered and no registered
\* table has x or v as an input.
C8_SecondaryNeverRegistered == Len(tables) <= 1 /\ ~SecondaryRegistered

C8_Witness ==
    /\ pc = "done" /\ alive /\ wasSet /\ nApply = 2
    /\ Len(tables) = 1 /\ ~SecondaryRegistered

FNameSet == {"Fvvbn", "Fvbn", "Fbn", "Fsn", "Fz", "Fsp", "Fbp", "Fvbp", "Fvvbp"}

\* The literal names a defined category of F in each cell of a 7 x 5 grid.
WellFormed(t) ==
    /\ Len(t) = 7
    /\ \A i \in 1..Len(t) : Len(t[i]) = 5 /\ \A j \in 1..Len(t[i]) : t[i][j] \in FNameSet

C10_SemiImplicitEuler ==
    lastOp = "apply" =>
        /\ w = FAdd(pre[2], FMul(Qacc(Params, pre, lastF), dt))
        /\ O = pv(FAdd(pre[1], FMul(w, dt)))
        /\ v = FAdd(pre[4], FMul(Aacc(Params, pre, lastF), dt))
        /\ x = FAdd(pre[3], FMul(v, dt))
        /\ ret = get_state

C10_Witness ==
    /\ lastOp = "apply" /\ nApply = 2 /\ AllFinite(State4)
    /\ w # pre[2] /\ v # pre[4]
    /\ O # pv(FAdd(pre[1], FMul(pre[2], dt)))
    /\ x # FAdd(pre[3], FMul(pre[4], dt))

=============================================================================
